---- MODULE Spec2Model ----
(***************************************************************************)
(* Lead discovery pipeline of Outreach-Agent:                              *)
(*   DiscoveryFlow.run  (src/src/app_logic/discovery_flow.py)              *)
(*   ApifyProspect      (src/src/models/schemas.py)                        *)
(*   ApifyClient        (src/src/clients/apify_client.py)                  *)
(*   SheetsClient       (src/src/clients/sheets_client.py)                 *)
(*   run_discovery      (src/main.py)                                      *)
(*                                                                         *)
(* Python strings are modelled as sequences of one-character strings, so   *)
(* that strip(), lower() and the e-mail pattern are computed character by  *)
(* character.  None (and a key that is missing from a raw record) is the   *)
(* one-element sequence None, whose element is not a character.            *)
(***************************************************************************)
EXTENDS Integers, Sequences, FiniteSets, TLC

\* ------------------------------------------------------------------ bounds
\* longest batch the fetch collaborator returns
MaxBatch == 3

\* ------------------------------------------------------------- characters
None == <<"None">>

UpperChars == <<"A","B","C","D","E","F","G","H","I","J","K","L","M",
                "N","O","P","Q","R","S","T","U","V","W","X","Y","Z">>
LowerChars == <<"a","b","c","d","e","f","g","h","i","j","k","l","m",
                "n","o","p","q","r","s","t","u","v","w","x","y","z">>
Digits == {"0","1","2","3","4","5","6","7","8","9"}
Whitespace == {" ", "\t", "\n", "\r"}

Range(s) == {s[i] : i \in 1..Len(s)}
Letters == Range(UpperChars) \cup Range(LowerChars)

\* str.lower() on one character
LowerChar(c) ==
    IF \E i \in 1..26 : UpperChars[i] = c
    THEN LowerChars[CHOOSE i \in 1..26 : UpperChars[i] = c]
    ELSE c

\* str.lower()
Lower(s) == [i \in 1..Len(s) |-> LowerChar(s[i])]

\* str.strip(): drop leading and trailing whitespace
RECURSIVE LStrip(_)
LStrip(s) == IF s # <<>> /\ Head(s) \in Whitespace THEN LStrip(Tail(s)) ELSE s

RECURSIVE RStrip(_)
RStrip(s) ==
    IF s # <<>> /\ s[Len(s)] \in Whitespace
    THEN RStrip(SubSeq(s, 1, Len(s) - 1))
    ELSE s

Strip(s) == RStrip(LStrip(s))

\* str.startswith(prefix)
StartsWith(s, p) == Len(s) >= Len(p) /\ SubSeq(s, 1, Len(p)) = p

\* truthiness of an Optional[str]: None and "" are falsy
Truthy(v) == v # None /\ v # <<>>

\* `v or ""`
OrEmpty(v) == IF Truthy(v) THEN v ELSE <<>>

\* ------------------------------------------------------------ validation
\* re.match(r'^[a-zA-Z0-9._%+-]+@[a-zA-Z0-9.-]+\.[a-zA-Z]{2,}$', v)
EmailLocalChars == Letters \cup Digits \cup {".", "_", "%", "+", "-"}
EmailDomainChars == Letters \cup Digits \cup {".", "-"}

MatchesEmailPattern(v) ==
    \E at \in 1..Len(v) : \E dot \in 1..Len(v) :
        /\ v[at] = "@"
        /\ at > 1
        /\ \A i \in 1..(at - 1) : v[i] \in EmailLocalChars
        /\ v[dot] = "."
        /\ dot > at + 1
        /\ \A i \in (at + 1)..(dot - 1) : v[i] \in EmailDomainChars
        /\ Len(v) - dot >= 2
        /\ \A i \in (dot + 1)..Len(v) : v[i] \in Letters

\* @validator('email'): value returned for an accepted address
validate_email(v) == Strip(Lower(v))

\* a coercion that accepts only https:// as a scheme
validate_linkedin_url_https_only(v) ==
    IF Truthy(v) /\ ~StartsWith(v, <<"h","t","t","p","s",":","/","/">>)
    THEN <<"h","t","t","p","s",":","/","/">> \o v
    ELSE v

\* @validator('linkedin_url')
validate_linkedin_url(v) ==
    IF Truthy(v) /\ ~StartsWith(v, <<"h","t","t","p",":","/","/">>)
                 /\ ~StartsWith(v, <<"h","t","t","p","s",":","/","/">>)
    THEN <<"h","t","t","p","s",":","/","/">> \o v
    ELSE v

\* str fields taken as given, without stripping
StripFieldUnstripped(v) == v

\* Config.str_strip_whitespace: every str field is stripped before its
\* constraints and validators run
StripField(v) == IF v = None THEN None ELSE Strip(v)

\* Field(..., min_length=1): required, a str, at least one character
RequiredNonEmpty(v) == v # None /\ Len(StripField(v)) >= 1

\* Field(...) for email followed by validate_email
EmailAccepted(v) == v # None /\ MatchesEmailPattern(StripField(v))

\* first_name declared without min_length: only its presence is checked
FirstNameOkNoMinLength(raw) == raw.first_name # None

\* first_name: str = Field(..., min_length=1)
FirstNameOk(raw) == RequiredNonEmpty(raw.first_name)

\* Config.extra = "forbid": a record with an undeclared field is rejected
ExtraFieldsForbidden(raw) == raw.extra = {}

\* Config.extra = "allow": undeclared fields are kept and never rejected
ExtraFieldsOk(raw) == TRUE

\* ApifyProspect(**raw_record) raises ValidationError iff this is FALSE
PassesValidation(raw) ==
    /\ ExtraFieldsOk(raw)
    /\ FirstNameOk(raw)
    /\ RequiredNonEmpty(raw.last_name)
    /\ EmailAccepted(raw.email)
    /\ RequiredNonEmpty(raw.organization_name)

\* the validated entity built by ApifyProspect(**raw_record)
ApifyProspect(raw) ==
    [ first_name               |-> StripField(raw.first_name),
      last_name                |-> StripField(raw.last_name),
      email                    |-> validate_email(StripField(raw.email)),
      organization_name        |-> StripField(raw.organization_name),
      title                    |-> StripField(raw.title),
      headline                 |-> StripField(raw.headline),
      linkedin_url             |-> validate_linkedin_url(StripField(raw.linkedin_url)),
      organization_website_url |-> StripField(raw.organization_website_url),
      industry                 |-> StripField(raw.industry),
      estimated_num_employees  |-> StripField(raw.estimated_num_employees),
      city                     |-> StripField(raw.city),
      state                    |-> StripField(raw.state),
      country                  |-> StripField(raw.country),
      raw_data                 |-> raw ]

\* -------------------------------------------------- computed properties
company_name(e) == e.organization_name

\* str.replace(old, "") for a non-empty old: remove every occurrence
RECURSIVE RemoveAll(_, _)
RemoveAll(s, old) ==
    IF s = <<>> THEN <<>>
    ELSE IF StartsWith(s, old) THEN RemoveAll(SubSeq(s, Len(old) + 1, Len(s)), old)
    ELSE <<Head(s)>> \o RemoveAll(Tail(s), old)

\* str.rstrip('/')
RECURSIVE RStripSlash(_)
RStripSlash(s) ==
    IF s # <<>> /\ s[Len(s)] = "/"
    THEN RStripSlash(SubSeq(s, 1, Len(s) - 1))
    ELSE s

company_domain(e) ==
    IF Truthy(e.organization_website_url)
    THEN RStripSlash(RemoveAll(RemoveAll(RemoveAll(e.organization_website_url,
                <<"h","t","t","p",":","/","/">>),
                <<"h","t","t","p","s",":","/","/">>),
                <<"w","w","w",".">>))
    ELSE None

company_industry(e) == e.industry

company_size(e) == e.estimated_num_employees

\* ', '.join(parts)
RECURSIVE JoinComma(_)
JoinComma(parts) ==
    IF parts = <<>> THEN <<>>
    ELSE IF Len(parts) = 1 THEN parts[1]
    ELSE parts[1] \o <<",", " ">> \o JoinComma(Tail(parts))

location(e) ==
    LET parts == (IF Truthy(e.city) THEN <<e.city>> ELSE <<>>)
              \o (IF Truthy(e.state) THEN <<e.state>> ELSE <<>>)
              \o (IF Truthy(e.country) THEN <<e.country>> ELSE <<>>)
    IN IF parts # <<>> THEN JoinComma(parts) ELSE None

effective_title(e) == IF Truthy(e.title) THEN e.title ELSE e.headline

\* ------------------------------------------------------------ projections
\* uuid.uuid4() is modelled as the next unused integer: uuid is the number
\* of identifiers generated so far.  datetime.now() is the logical clock
\* now, which counts the readings taken so far.
to_prospect_row(e, uuid, now) ==
    [ id           |-> uuid + 1,
      first_name   |-> e.first_name,
      last_name    |-> e.last_name,
      email        |-> e.email,
      company_id   |-> uuid + 2,
      title        |-> OrEmpty(effective_title(e)),
      linkedin_url |-> OrEmpty(e.linkedin_url),
      phase        |-> "discovered",
      created_at   |-> now + 1,
      updated_at   |-> now + 2 ]

to_company_row(e, uuid, now) ==
    [ id          |-> uuid + 1,
      name        |-> company_name(e),
      domain      |-> OrEmpty(company_domain(e)),
      industry    |-> OrEmpty(company_industry(e)),
      size        |-> OrEmpty(company_size(e)),
      location    |-> OrEmpty(location(e)),
      description |-> <<>>,
      created_at  |-> now + 1 ]

\* ------------------------------------------------------ template row
\* the caps of to_template_row's derived strings
HeadlineCap == 200
DescriptionCap == 500
KeywordCap == 5

\* a slice that keeps the whole string
TakeUncut(s, n) == s

\* s[:n]
Take(s, n) == IF Len(s) <= n THEN s ELSE SubSeq(s, 1, n)

\* str.replace(old, new) for a one-character old
ReplaceChar(s, old, new) == [k \in 1..Len(s) |-> IF s[k] = old THEN new ELSE s[k]]

\* raw.get(key, ''): a field the record lacks is an absent key
RawGet(v) == IF v = None THEN <<>> ELSE v

\* separator.join(parts)
RECURSIVE Join(_, _)
Join(sep, parts) ==
    IF parts = <<>> THEN <<>>
    ELSE IF Len(parts) = 1 THEN parts[1]
    ELSE parts[1] \o sep \o Join(sep, Tail(parts))

\* str.split(',')
RECURSIVE SplitComma(_)
SplitComma(s) ==
    IF \E k \in 1..Len(s) : s[k] = ","
    THEN LET c == CHOOSE k \in 1..Len(s) :
                     s[k] = "," /\ \A j \in 1..(k - 1) : s[j] # ","
         IN <<SubSeq(s, 1, c - 1)>> \o SplitComma(SubSeq(s, c + 1, Len(s)))
    ELSE <<s>>

\* f"{self.first_name} {self.last_name}"
full_name(e) == e.first_name \o <<" ">> \o e.last_name

\* _extract_personal_summary
extract_personal_summary(e) ==
    IF Truthy(e.headline) THEN Take(e.headline, HeadlineCap)
    ELSE IF Truthy(effective_title(e))
    THEN effective_title(e) \o <<" ","a","t"," ">> \o company_name(e)
    ELSE <<>>

\* _extract_company_background
extract_company_background(e) ==
    LET raw == e.raw_data
        description == IF Truthy(raw.organization_short_description)
                       THEN raw.organization_short_description
                       ELSE RawGet(raw.organization_seo_description)
    IN IF description # <<>>
       THEN Take(ReplaceChar(ReplaceChar(description, "\n", " "), "\r", " "),
                 DescriptionCap)
       ELSE <<>>

\* _extract_key_offerings
extract_key_offerings(e) ==
    LET keywords == RawGet(e.raw_data.keywords)
        all == SplitComma(keywords)
        keyword_list == [k \in 1..(IF Len(all) <= KeywordCap THEN Len(all) ELSE KeywordCap)
                            |-> Strip(all[k])]
    IN IF keywords # <<>> THEN Join(<<",", " ">>, keyword_list)
       ELSE IF Truthy(e.industry) THEN e.industry \o <<" ","s","o","l","u","t","i","o","n","s">>
       ELSE <<>>

\* _extract_company_summary
extract_company_summary(e) ==
    LET raw == e.raw_data
        summary_parts ==
               (IF Truthy(raw.organization_founded_year)
                THEN <<<<"F","o","u","n","d","e","d"," ","i","n"," ">> \o raw.organization_founded_year>> ELSE <<>>)
            \o (IF Truthy(company_size(e))
                THEN <<company_size(e) \o <<" ","e","m","p","l","o","y","e","e","s">>>> ELSE <<>>)
            \o (IF Truthy(raw.organization_annual_revenue_printed)
                THEN <<<<"$">> \o raw.organization_annual_revenue_printed \o <<" ","r","e","v","e","n","u","e">>>>
                ELSE <<>>)
            \o (IF Truthy(location(e))
                THEN <<<<"L","o","c","a","t","e","d"," ","i","n"," ">> \o location(e)>> ELSE <<>>)
            \o (IF Truthy(e.industry)
                THEN <<e.industry \o <<" ","i","n","d","u","s","t","r","y">>>> ELSE <<>>)
    IN Join(<<" ", "|", " ">>, summary_parts)

\* the 16 template fields, in the order of the dict literal of lines 167-184
TemplateFields ==
    << "Full Name", "Last Name", "First Name", "Email", "Title",
       "Personal LinkedIn", "Company Name", "Company Website",
       "Company LinkedIn", "Personal Summary", "Company Background",
       "Recent Company News", "Key Offerings", "Customer Sentiment",
       "Company Summary", "Outreach Message" >>

\* ApifyProspect.to_template_row: the dict as its items in insertion order
to_template_row(e) ==
    << <<"Full Name", full_name(e)>>,
       <<"Last Name", e.last_name>>,
       <<"First Name", e.first_name>>,
       <<"Email", e.email>>,
       <<"Title", OrEmpty(effective_title(e))>>,
       <<"Personal LinkedIn", OrEmpty(e.linkedin_url)>>,
       <<"Company Name", company_name(e)>>,
       <<"Company Website", OrEmpty(e.organization_website_url)>>,
       <<"Company LinkedIn", RawGet(e.raw_data.organization_linkedin_url)>>,
       <<"Personal Summary", extract_personal_summary(e)>>,
       <<"Company Background", extract_company_background(e)>>,
       <<"Recent Company News", <<>> >>,
       <<"Key Offerings", extract_key_offerings(e)>>,
       <<"Customer Sentiment", <<>> >>,
       <<"Company Summary", extract_company_summary(e)>>,
       <<"Outreach Message", <<>> >> >>

\* the key without case folding
company_key_case_sensitive(row) == Strip(row.name)

\* company_row["name"].lower().strip()
company_key(row) == Strip(Lower(row.name))

\* ------------------------------------------------------------- raw records
\* A raw record as the scraper returns it.  is_dict is FALSE for an item
\* that is not a mapping (raw_record.copy() / item assignment then raises a
\* non-validation exception).  extra holds the names of the fields of the
\* record that ApifyProspect does not declare.
Raw(fn, ln, em, org) ==
    [ is_dict |-> TRUE,
      first_name |-> fn, last_name |-> ln, email |-> em,
      organization_name |-> org,
      title |-> None, headline |-> None, linkedin_url |-> None,
      organization_website_url |-> None, industry |-> None,
      estimated_num_employees |-> None,
      city |-> None, state |-> None, country |-> None,
      organization_short_description |-> None,
      organization_seo_description |-> None,
      keywords |-> None,
      organization_linkedin_url |-> None,
      organization_founded_year |-> None,
      organization_annual_revenue_printed |-> None,
      extra |-> {} ]

GoodEmail == <<"a","@","b",".","c","o">>
AcmeInc == <<"A","c","m","e"," ","I","n","c">>
AcmeIncPadded == <<" "," ","a","c","m","e"," ","i","n","c"," "," ">>
Beta == <<"B","e","t","a">>

RecAcme ==
    [ Raw(<<"A","l">>, <<"U","x">>, GoodEmail, AcmeInc) EXCEPT
        !.title = <<"C","E","O">>,
        !.linkedin_url = <<"l","i","/","x">>,
        !.organization_website_url =
            <<"h","t","t","p","s",":","/","/","w","w","w",".","e","x",".","c","o","/">>,
        !.city = <<"U","l","m">>, !.country = <<"D","E">> ]
RecAcmePadded == Raw(<<"B","o">>, <<"V","y">>, <<" ","B","@","b",".","C","O"," ">>, AcmeIncPadded)
RecBeta == [ Raw(<<"C","y">>, <<"W","u">>, GoodEmail, Beta) EXCEPT !.headline = <<"C","T","O">> ]
RecNoEmail == Raw(<<"D","i">>, <<"X","i">>, None, AcmeInc)
RecEmptyEmail == Raw(<<"D","i">>, <<"X","i">>, <<>>, AcmeInc)
RecBadEmail == Raw(<<"D","i">>, <<"X","i">>, <<"a","@","b">>, AcmeInc)
RecNoFirst == Raw(None, <<"X","i">>, GoodEmail, AcmeInc)
RecEmptyFirst == Raw(<<>>, <<"X","i">>, GoodEmail, Beta)
RecNoLast == Raw(<<"D","i">>, None, GoodEmail, Beta)
RecEmptyLast == Raw(<<"D","i">>, <<>>, GoodEmail, AcmeInc)
RecNoOrg == Raw(<<"D","i">>, <<"X","i">>, GoodEmail, None)
RecEmptyOrg == Raw(<<"D","i">>, <<"X","i">>, GoodEmail, <<>>)
RecNotDict == [ Raw(None, None, None, None) EXCEPT !.is_dict = FALSE ]

\* records of the orchestration specification
CoreRecords == {RecAcme, RecAcmePadded, RecBeta, RecNoEmail, RecNotDict}

\* the batches the fetch collaborator may return
Batches == UNION {[1..n -> CoreRecords] : n \in 0..MaxBatch}

\* ---------------------------------------------------------------- targets
Missing == "<missing>"
MaxRecords == 50000

\* dict.get(key, default)
Get(v, default) == IF v = Missing THEN default ELSE v

\* main.py default_targets, the criteria of the spec's example, and a value
\* that is not a mapping (targets.get then raises)
TargetInputs ==
    { [ is_dict |-> TRUE, company_size |-> "1-1000", industry |-> "All",
        location |-> "Germany", job_titles |-> <<"HR", "CEO", "CTO">> ],
      [ is_dict |-> FALSE, company_size |-> Missing, industry |-> Missing,
        location |-> Missing, job_titles |-> <<Missing>> ] }

\* main.py: the --total option of the discovery command
TotalRecordsInputs == {10}

\* '&'.join(url_params), each parameter being f"{key}={value}"
RECURSIVE JoinAmp(_)
JoinAmp(params) ==
    IF params = <<>> THEN <<>>
    ELSE IF Len(params) = 1 THEN <<params[1][1], "=", params[1][2]>>
    ELSE <<params[1][1], "=", params[1][2], "&">> \o JoinAmp(Tail(params))

\* lines 147-151: the search URL as the sequence of its pieces
SearchUrl(base_url, url_params) ==
    IF url_params # <<>>
    THEN <<base_url, "?">> \o JoinAmp(url_params)
    ELSE <<base_url>>

\* the job titles emitted last title first
build_apollo_search_url_titles_reversed(t) ==
    LET size == Get(t.company_size, "1-50")
        industry == Get(t.industry, "Technology")
        loc == Get(t.location, "United States")
        job_titles == IF t.job_titles = <<Missing>>
                      THEN <<"CEO", "Founder", "CTO">> ELSE t.job_titles
        url_params ==
               (IF size # "" THEN << <<"organizationNumEmployeesRanges[]", size>> >> ELSE <<>>)
            \o (IF industry # "" THEN << <<"qOrganizationKeywordTags[]", industry>> >> ELSE <<>>)
            \o (IF loc # "" THEN << <<"personLocations[]", loc>> >> ELSE <<>>)
            \o [k \in 1..Len(job_titles) |->
                   <<"personTitles[]", job_titles[Len(job_titles) + 1 - k]>>]
    IN [ base |-> "https://app.apollo.io/#/people", params |-> url_params,
         text |-> SearchUrl("https://app.apollo.io/#/people", url_params) ]

\* ApifyClient.build_apollo_search_url: base URL, the ordered url_params and
\* the URL string built from them
build_apollo_search_url(t) ==
    LET size == Get(t.company_size, "1-50")
        industry == Get(t.industry, "Technology")
        loc == Get(t.location, "United States")
        job_titles == IF t.job_titles = <<Missing>>
                      THEN <<"CEO", "Founder", "CTO">> ELSE t.job_titles
        url_params ==
               (IF size # "" THEN << <<"organizationNumEmployeesRanges[]", size>> >> ELSE <<>>)
            \o (IF industry # "" THEN << <<"qOrganizationKeywordTags[]", industry>> >> ELSE <<>>)
            \o (IF loc # "" THEN << <<"personLocations[]", loc>> >> ELSE <<>>)
            \o [k \in 1..Len(job_titles) |-> <<"personTitles[]", job_titles[k]>>]
    IN [ base |-> "https://app.apollo.io/#/people", params |-> url_params,
         text |-> SearchUrl("https://app.apollo.io/#/people", url_params) ]

\* DiscoveryFlow._build_actor_input
build_actor_input(apollo_url, total) ==
    [ searchUrl |-> apollo_url, numberOfLeads |-> total ]

\* the requested count passed on without the API limit
MinUnclamped(a, b) == a

\* min(total_records, 50000)
Min(a, b) == IF a <= b THEN a ELSE b

\* ApifyClient._validate_actor_input
validate_actor_input(actor_input) ==
    [ url |-> actor_input.searchUrl,
      totalRecords |-> Min(actor_input.numberOfLeads, MaxRecords),
      fileName |-> "Apollo Prospects" ]

\* ----------------------------------------------------------------- sheets
ProspectsHeader == <<"id", "first_name", "last_name", "email", "company_id",
                     "title", "linkedin_url", "phase", "created_at", "updated_at">>
CompaniesHeader == <<"id", "name", "domain", "industry", "size",
                     "location", "description", "created_at">>

\* a row built with first_name and last_name in each other's column
ProspectCellsNamesSwapped(p) ==
    [ kind |-> "data",
      cells |-> <<p.id, p.last_name, p.first_name, p.email, p.company_id,
                  p.title, p.linkedin_url, p.phase, p.created_at, p.updated_at>> ]

\* _upsert_prospects: one data row in header order
ProspectCells(p) ==
    [ kind |-> "data",
      cells |-> <<p.id, p.first_name, p.last_name, p.email, p.company_id,
                  p.title, p.linkedin_url, p.phase, p.created_at, p.updated_at>> ]

\* _upsert_companies: one data row in header order
CompanyCells(c) ==
    [ kind |-> "data",
      cells |-> <<c.id, c.name, c.domain, c.industry, c.size,
                  c.location, c.description, c.created_at>> ]

HeaderRow(h) == [ kind |-> "header", cells |-> h ]

\* SheetsClient.append_rows, header step: the header is inserted as row 1
\* when the first row is missing or all blank; an exception while checking
\* (hdr_ok = FALSE) is logged and swallowed
EnsureHeader(ws, header, hdr_ok) ==
    IF hdr_ok /\ (ws = <<>> \/ ws[1].kind = "blank")
    THEN <<HeaderRow(header)>> \o ws
    ELSE ws

\* ------------------------------------------------------------------ state
VARIABLES
    pc,              \* position of DiscoveryFlow.run
    targets,         \* argument of run
    total_records,   \* argument of run
    apollo_url,      \* local of run
    run_input,       \* input handed to the actor by run_actor_and_fetch_data
    raw_data,        \* local of run: the fetched batch
    i,               \* loop index of _process_records_with_progress (0-based)
    results,         \* local of run: the RunResult dictionary
    prospects_data,  \* local of _process_records_with_progress
    companies_data,  \* local of _process_records_with_progress
    companies_seen,  \* local of _process_records_with_progress
    prospect_row,    \* loop local, <<>> outside lines 197-212
    company_row,     \* loop local, <<>> outside lines 198-212
    uuid,            \* number of uuid4() identifiers generated
    now,             \* number of datetime.now() readings taken
    sheets,          \* the spreadsheet: worksheet name -> rows
    calls,           \* collaborator calls issued by run, in order
    appends,         \* arguments of the append_rows calls issued by run, in order
    second_run,      \* TRUE once run was called again on the same DiscoveryFlow
    returned,        \* what run_discovery received from run: <<>> or <<results>>
    raised,          \* the exception run_discovery caught, "" if none
    table,           \* the worksheet SheetsClient.upsert_row works on: its rows
    template_input,  \* argument raw_data of process_apollo_records
    template_i,      \* its loop index (0-based): records handled so far
    template_data,   \* its local template_data
    invalid_count,   \* its local invalid_count
    validated        \* positions for which ApifyProspect(**raw_record) was called

\* the worksheet of upsert_row
upsert_vars == <<table>>

\* the frame of process_apollo_records
template_vars == <<template_input, template_i, template_data, invalid_count, validated>>

\* the state of DiscoveryFlow.run and of the spreadsheet it writes to
run_vars == <<pc, targets, total_records, apollo_url, run_input, raw_data, i,
              results, prospects_data, companies_data, companies_seen,
              prospect_row, company_row, uuid, now, sheets, calls, appends,
              second_run, returned, raised>>

vars == <<pc, targets, total_records, apollo_url, run_input, raw_data, i,
          results, prospects_data, companies_data, companies_seen,
          prospect_row, company_row, uuid, now, sheets, calls, appends,
          second_run, returned, raised, table,
          template_input, template_i, template_data, invalid_count, validated>>

NoUrl == [ base |-> "", params |-> <<>>, text |-> <<>> ]
NoInput == [ url |-> NoUrl, totalRecords |-> 0, fileName |-> "" ]

\* run, lines 62-70
InitResults(total) ==
    [ total_requested |-> total,
      raw_records_fetched |-> 0,
      valid_prospects |-> 0,
      invalid_prospects |-> 0,
      prospects_inserted |-> 0,
      companies_inserted |-> 0,
      errors |-> <<>> ]

\* upsert_row has not been called: the worksheet is empty
UpsertIdle == table = <<>>

\* process_apollo_records has not been called
TemplateIdle ==
    /\ template_input = <<>>
    /\ template_i = 0
    /\ template_data = <<>>
    /\ invalid_count = 0
    /\ validated = {}

Init ==
    /\ UpsertIdle
    /\ TemplateIdle
    /\ pc = "build"
    /\ targets \in TargetInputs
    /\ total_records \in TotalRecordsInputs
    /\ apollo_url = NoUrl
    /\ run_input = NoInput
    /\ raw_data = <<>>
    /\ i = 0
    /\ results = InitResults(total_records)
    /\ prospects_data = <<>>
    /\ companies_data = <<>>
    /\ companies_seen = {}
    /\ prospect_row = <<>>
    /\ company_row = <<>>
    /\ uuid = 0
    /\ now = 0
    /\ sheets = [ Prospects |-> <<>>, Companies |-> <<>> ]
    /\ calls = <<>>
    /\ appends = <<>>
    /\ second_run = FALSE
    /\ returned = <<>>
    /\ raised = ""

\* an entry that names no record
ErrorEntryUnpositioned(record, text) == [ record |-> 0, text |-> text ]

\* an entry of results["errors"]: record is the 1-based position named by
\* a "Record {i+1}: ..." entry, 0 for a whole-run message
ErrorEntry(record, text) == [ record |-> record, text |-> text ]

\* an except clause that re-raises without recording the message
AbortUnrecorded(res, msg) ==
    /\ results' = res
    /\ pc' = "raised"
    /\ raised' = msg
    /\ returned' = <<>>

\* an except clause that records a failed Prospects write and lets run go
\* on with the Companies write
AbortExceptProspectsWrite(res, msg) ==
    /\ results' = [res EXCEPT !.errors = Append(@, ErrorEntry(0, msg))]
    /\ pc' = IF msg = "Prospects write failed" THEN "upsert_companies" ELSE "raised"
    /\ raised' = msg
    /\ returned' = <<>>

\* run, lines 112-132: the except clause records the message and re-raises;
\* run_discovery (main.py 181-193) catches the exception and gets no value
Abort(res, msg) ==
    /\ results' = [res EXCEPT !.errors = Append(@, ErrorEntry(0, msg))]
    /\ pc' = "raised"
    /\ raised' = msg
    /\ returned' = <<>>

\* run, lines 73-78
BuildQuery ==
    /\ pc = "build"
    /\ calls' = Append(calls, "build_apollo_search_url")
    /\ IF targets.is_dict
       THEN /\ apollo_url' = build_apollo_search_url(targets)
            /\ pc' = "fetch"
            /\ UNCHANGED <<results, returned, raised>>
       ELSE /\ Abort(results, "build_apollo_search_url failed")
            /\ UNCHANGED apollo_url
    /\ UNCHANGED <<upsert_vars, template_vars, second_run, appends, targets, total_records, run_input, raw_data, i,
                   prospects_data, companies_data, companies_seen,
                   prospect_row, company_row, uuid, now, sheets>>

\* a loop that leaves out the last record of the batch
AfterRecordSkipsLast(k, batch) ==
    IF k + 2 < Len(batch) THEN "validate" ELSE "upsert_prospects"

\* position after the loop body for index k has finished (line 231)
AfterRecord(k, batch) ==
    IF k + 1 < Len(batch) THEN "validate" ELSE "upsert_prospects"

\* a try/except placed around the loop: the first rejection ends it
AfterRejectionLeavesLoop(k, batch) == "upsert_prospects"

\* lines 214-231: the except clauses sit inside the loop body, which goes
\* on with the next record
AfterRejection(k, batch) == AfterRecord(k, batch)

\* run, lines 80-87, with ApifyClient.run_actor_and_fetch_data
Fetch(batches) ==
    /\ pc = "fetch"
    /\ calls' = Append(calls, "run_actor_and_fetch_data")
    /\ run_input' = validate_actor_input(build_actor_input(apollo_url, total_records))
    /\ \/ /\ Abort(results, "Actor execution failed")
          /\ UNCHANGED raw_data
       \/ \E batch \in batches :
            /\ raw_data' = batch
            /\ results' = [results EXCEPT !.raw_records_fetched = Len(batch)]
            /\ pc' = AfterRecord(-1, batch)
            /\ UNCHANGED <<returned, raised>>
    /\ UNCHANGED <<upsert_vars, template_vars, second_run, appends, targets, total_records, apollo_url, i,
                   prospects_data, companies_data, companies_seen,
                   prospect_row, company_row, uuid, now, sheets>>

\* _process_records_with_progress, lines 188-198 and 214-231 for record i:
\* copy, validate, project; a rejected record is counted and skipped.
\* (Line 191 adds the key raw_data to the record; no row of this flow reads it.)
ValidateProject ==
    /\ pc = "validate"
    /\ LET raw == raw_data[i + 1] IN
       IF ~raw.is_dict
       THEN \* except Exception, lines 223-229
            /\ results' = [results EXCEPT
                    !.invalid_prospects = @ + 1,
                    !.errors = Append(@, ErrorEntry(i + 1, "not a mapping"))]
            /\ i' = i + 1
            /\ pc' = AfterRejection(i, raw_data)
            /\ UNCHANGED <<prospect_row, company_row, uuid, now>>
       ELSE IF ~PassesValidation(raw)
       THEN \* except ValidationError, lines 214-221
            /\ results' = [results EXCEPT !.invalid_prospects = @ + 1]
            /\ i' = i + 1
            /\ pc' = AfterRejection(i, raw_data)
            /\ UNCHANGED <<prospect_row, company_row, uuid, now>>
       ELSE \* lines 194-198
            /\ prospect_row' = <<to_prospect_row(ApifyProspect(raw), uuid, now)>>
            /\ company_row' = <<to_company_row(ApifyProspect(raw), uuid + 2, now + 2)>>
            /\ uuid' = uuid + 3
            /\ now' = now + 3
            /\ pc' = "dedup"
            /\ UNCHANGED <<results, i>>
    /\ UNCHANGED <<upsert_vars, template_vars, second_run, targets, total_records, apollo_url, run_input, raw_data,
                   prospects_data, companies_data, companies_seen,
                   sheets, calls, appends, returned, raised>>

\* a company kept only once some other company has been seen
IsNewCompanyAfterFirst(key, seen) == seen # {} /\ key \notin seen

\* line 207
IsNewCompany(key, seen) == key \notin seen

\* the identifier generated just before the company row's own: the
\* placeholder of to_prospect_row
ResolvedCompanyIdPlaceholder(row, key, companies) == row.id - 1

\* line 212: the company id finally stored in the prospect row
ResolvedCompanyId(row, key, companies) == row.id

\* a prospect row kept only when its company is new
AppendProspectIfNewCompany(batch, row, key, seen) ==
    IF key \notin seen THEN Append(batch, row) ELSE batch

\* a prospect row put in front of the batch
AppendProspectAtFront(batch, row, key, seen) == <<row>> \o batch

\* lines 203-204: the prospect batch after a valid record
AppendProspect(batch, row, key, seen) == Append(batch, row)

\* _process_records_with_progress, lines 200-212 and 231 for record i
Deduplicate ==
    /\ pc = "dedup"
    /\ LET p == prospect_row[1]
           c == company_row[1]
           key == company_key(c)
       IN /\ prospects_data' = AppendProspect(prospects_data,
                 [p EXCEPT !.company_id = ResolvedCompanyId(c, key, companies_data)],
                 key, companies_seen)
          /\ results' = [results EXCEPT !.valid_prospects = @ + 1]
          /\ IF IsNewCompany(key, companies_seen)
             THEN /\ companies_data' = Append(companies_data, c)
                  /\ companies_seen' = companies_seen \cup {key}
             ELSE UNCHANGED <<companies_data, companies_seen>>
    /\ prospect_row' = <<>>
    /\ company_row' = <<>>
    /\ i' = i + 1
    /\ pc' = AfterRecord(i, raw_data)
    /\ UNCHANGED <<upsert_vars, template_vars, second_run, targets, total_records, apollo_url, run_input, raw_data,
                   uuid, now, sheets, calls, appends, returned, raised>>

\* a count of write calls instead of rows
InsertedCountOfCalls(rows) == 1

\* sheets_client.append_rows(sheet_name, rows, header_row) as called at
\* lines 285 and 328
AppendCall(sheet_name, header_row, rows) ==
    [ sheet_name |-> sheet_name, header_row |-> header_row, rows |-> rows ]

\* a count that includes the header row
InsertedCountWithHeader(rows) == Len(rows) + 1

\* run line 101 / 105: the count stored after a successful write
InsertedCount(rows) == Len(rows)

\* run lines 99-101 with _upsert_prospects and SheetsClient.append_rows.
\* open_ok: get_worksheet succeeds; hdr_ok: the header check succeeds;
\* append_ok: worksheet.append_rows succeeds.
UpsertProspects ==
    /\ pc = "upsert_prospects"
    /\ IF prospects_data = <<>>
       THEN /\ pc' = "upsert_companies"
            /\ UNCHANGED <<results, sheets, calls, appends, returned, raised>>
       ELSE /\ calls' = Append(calls, "append_rows Prospects")
            /\ appends' = Append(appends,
                   AppendCall("Prospects", ProspectsHeader,
                       [k \in 1..Len(prospects_data) |-> ProspectCells(prospects_data[k])]))
            /\ \E open_ok \in BOOLEAN, hdr_ok \in BOOLEAN, append_ok \in BOOLEAN :
                 LET rows == [k \in 1..Len(prospects_data) |-> ProspectCells(prospects_data[k])]
                     ws == EnsureHeader(sheets.Prospects, ProspectsHeader, hdr_ok)
                 IN IF ~open_ok
                    THEN /\ Abort(results, "Prospects write failed")
                         /\ UNCHANGED sheets
                    ELSE IF ~append_ok
                    THEN /\ Abort(results, "Prospects write failed")
                         /\ sheets' = [sheets EXCEPT !.Prospects = ws]
                    ELSE /\ sheets' = [sheets EXCEPT !.Prospects = ws \o rows]
                         /\ results' = [results EXCEPT !.prospects_inserted = InsertedCount(rows)]
                         /\ pc' = "upsert_companies"
                         /\ UNCHANGED <<returned, raised>>
    /\ UNCHANGED <<upsert_vars, template_vars, second_run, targets, total_records, apollo_url, run_input, raw_data, i,
                   prospects_data, companies_data, companies_seen,
                   prospect_row, company_row, uuid, now>>

\* run lines 103-105 with _upsert_companies and SheetsClient.append_rows
UpsertCompanies ==
    /\ pc = "upsert_companies"
    /\ IF companies_data = <<>>
       THEN /\ pc' = "display"
            /\ UNCHANGED <<results, sheets, calls, appends, returned, raised>>
       ELSE /\ calls' = Append(calls, "append_rows Companies")
            /\ appends' = Append(appends,
                   AppendCall("Companies", CompaniesHeader,
                       [k \in 1..Len(companies_data) |-> CompanyCells(companies_data[k])]))
            /\ \E open_ok \in BOOLEAN, hdr_ok \in BOOLEAN, append_ok \in BOOLEAN :
                 LET rows == [k \in 1..Len(companies_data) |-> CompanyCells(companies_data[k])]
                     ws == EnsureHeader(sheets.Companies, CompaniesHeader, hdr_ok)
                 IN IF ~open_ok
                    THEN /\ Abort(results, "Companies write failed")
                         /\ UNCHANGED sheets
                    ELSE IF ~append_ok
                    THEN /\ Abort(results, "Companies write failed")
                         /\ sheets' = [sheets EXCEPT !.Companies = ws]
                    ELSE /\ sheets' = [sheets EXCEPT !.Companies = ws \o rows]
                         /\ results' = [results EXCEPT !.companies_inserted = InsertedCount(rows)]
                         /\ pc' = "display"
                         /\ UNCHANGED <<returned, raised>>
    /\ UNCHANGED <<upsert_vars, template_vars, second_run, targets, total_records, apollo_url, run_input, raw_data, i,
                   prospects_data, companies_data, companies_seen,
                   prospect_row, company_row, uuid, now>>

\* run lines 107-110 with _display_success_results: the success rate
\* (line 345) divides by raw_records_fetched, so an empty batch raises
\* ZeroDivisionError inside the try block
DisplayAndReturn ==
    /\ pc = "display"
    /\ IF results.raw_records_fetched = 0
       THEN Abort(results, "division by zero")
       ELSE /\ pc' = "returned"
            /\ returned' = <<results>>
            /\ UNCHANGED <<results, raised>>
    /\ UNCHANGED <<upsert_vars, template_vars, second_run, targets, total_records, apollo_url, run_input, raw_data, i,
                   prospects_data, companies_data, companies_seen,
                   prospect_row, company_row, uuid, now, sheets, calls, appends>>

Next ==
    \/ BuildQuery
    \/ Fetch(Batches)
    \/ ValidateProject
    \/ Deduplicate
    \/ UpsertProspects
    \/ UpsertCompanies
    \/ DisplayAndReturn

Spec == Init /\ [][Next]_vars

\* ------------------------------------------- field-validation specification
\* longest batch of the field-validation specification
MaxFieldBatch == 2

\* every way one of the four required fields can be missing or empty
FieldRecords ==
    { RecAcme, RecBeta, RecNoEmail, RecEmptyEmail, RecBadEmail, RecNoFirst,
      RecEmptyFirst, RecNoLast, RecEmptyLast, RecNoOrg, RecEmptyOrg, RecNotDict }

FieldBatches == UNION {[1..n -> FieldRecords] : n \in 0..MaxFieldBatch}

NextFields ==
    \/ BuildQuery
    \/ Fetch(FieldBatches)
    \/ ValidateProject
    \/ Deduplicate
    \/ UpsertProspects
    \/ UpsertCompanies
    \/ DisplayAndReturn

SpecFields == Init /\ [][NextFields]_vars

\* -------------------------------------------------- long-batch specification
\* longest batch of the long-batch specification
MaxLongBatch == 5

LongRecords == {RecAcme, RecBeta, RecNoEmail, RecNotDict}

LongBatches == UNION {[1..n -> LongRecords] : n \in 0..MaxLongBatch}

NextLong ==
    \/ BuildQuery
    \/ Fetch(LongBatches)
    \/ ValidateProject
    \/ Deduplicate
    \/ UpsertProspects
    \/ UpsertCompanies
    \/ DisplayAndReturn

SpecLong == Init /\ [][NextLong]_vars

\* ----------------------------------------------------------------- claims
\* a raw record in which a required field is missing or empty
LacksRequired(raw) ==
    /\ raw.is_dict
    /\ \/ raw.first_name \in {None, <<>>}
       \/ raw.last_name \in {None, <<>>}
       \/ raw.email \in {None, <<>>}
       \/ raw.organization_name \in {None, <<>>}

\* the normalized (lower-cased, trimmed) organization name of a raw record
NormalizedOrg(raw) == Strip(Lower(raw.organization_name))

\* positions (1-based) of the accepted records among the first n of a batch
AcceptedPositions(batch, n) ==
    LET Accepted(k) == batch[k].is_dict /\ PassesValidation(batch[k])
    IN SelectSeq([k \in 1..n |-> k], Accepted)

\* the loop has ended (or the run never reached it)
LoopOver == pc \notin {"build", "fetch", "validate", "dedup"}

\* C1: a record whose email, first_name, last_name or organization_name is
\* missing or empty is rejected: processing it adds no row to either batch,
\* leaves valid_prospects alone and raises invalid_prospects by exactly one.
C1_MissingRequiredRejected ==
    [][ (pc = "validate" /\ LacksRequired(raw_data[i + 1])) =>
          /\ pc' # "dedup"
          /\ i' = i + 1
          /\ prospects_data' = prospects_data
          /\ companies_data' = companies_data
          /\ results'.valid_prospects = results.valid_prospects
          /\ results'.invalid_prospects = results.invalid_prospects + 1 ]_vars

C1_Witness ==
    /\ i = 2
    /\ raw_data[1] = RecEmptyFirst
    /\ raw_data[2] = RecNoOrg
    /\ results.invalid_prospects = 2
    /\ prospects_data = <<>>
    /\ companies_data = <<>>

\* C2: every ProspectRow carries the id of the CompanyRow that was emitted
\* in this run for the prospect's normalized organization name.
C2_ProspectsReferenceEmittedCompany ==
    \A k \in 1..Len(prospects_data) :
        \E c \in 1..Len(companies_data) :
            /\ companies_data[c].id = prospects_data[k].company_id
            /\ Strip(Lower(companies_data[c].name))
                 = NormalizedOrg(raw_data[AcceptedPositions(raw_data, i)[k]])

\* C3: after any prefix of the batch the company batch holds at most one
\* CompanyRow per normalized name, and exactly one for every normalized
\* name among the accepted records processed so far.
C3_OneCompanyPerNormalizedName ==
    /\ \A a, b \in 1..Len(companies_data) :
          Strip(Lower(companies_data[a].name)) = Strip(Lower(companies_data[b].name))
            => a = b
    /\ { Strip(Lower(companies_data[c].name)) : c \in 1..Len(companies_data) }
         = { NormalizedOrg(raw_data[k]) : k \in Range(AcceptedPositions(raw_data, i)) }

C3_Witness ==
    /\ i = 2
    /\ raw_data[1] = RecAcme
    /\ raw_data[2] = RecAcmePadded
    /\ Len(companies_data) = 1
    /\ pc # "dedup"

\* C4: every accepted record yields exactly one ProspectRow, whether or not
\* its company was already seen: the prospect batch has one row per accepted
\* record processed so far, row k built from the k-th accepted record, and
\* valid_prospects counts them.
C4_OneProspectPerValidRecord ==
    LET acc == AcceptedPositions(raw_data, i) IN
    /\ Len(prospects_data) = Len(acc)
    /\ results.valid_prospects = Len(acc)
    /\ \A k \in 1..Len(prospects_data) :
          /\ prospects_data[k].first_name = Strip(raw_data[acc[k]].first_name)
          /\ \A m \in 1..Len(prospects_data) :
                prospects_data[k].id = prospects_data[m].id => k = m

C4_Witness ==
    /\ Len(prospects_data) = 3
    /\ Len(companies_data) = 1
    /\ results.valid_prospects = 3

\* C5: a rejected record never ends the loop early: the step that rejects a
\* record moves on to the next one, and once the loop is over
\* valid_prospects and invalid_prospects are the numbers of accepted and
\* rejected records and add up to raw_records_fetched.
C5_RejectionNeverAbortsBatch ==
    /\ [](LoopOver =>
            /\ i = Len(raw_data)
            /\ results.raw_records_fetched = Len(raw_data)
            /\ results.valid_prospects = Len(AcceptedPositions(raw_data, Len(raw_data)))
            /\ results.valid_prospects + results.invalid_prospects
                 = results.raw_records_fetched)
    /\ [][ (pc = "validate" /\ pc' # "dedup") =>
             /\ i' = i + 1
             /\ pc' = IF i' < Len(raw_data) THEN "validate" ELSE "upsert_prospects" ]_vars

C5_Witness ==
    /\ pc = "returned"
    /\ Len(raw_data) = 5
    /\ raw_data[3] = RecNoEmail
    /\ \A k \in {1, 2, 4, 5} : PassesValidation(raw_data[k])
    /\ results.valid_prospects = 4
    /\ results.invalid_prospects = 1

\* C6: every record rejected by validation has exactly one entry in the
\* error list, and that entry names the record's 1-based position.
C6_RejectedRecordsListed ==
    \A k \in 1..i :
        (raw_data[k].is_dict /\ ~PassesValidation(raw_data[k])) =>
            Cardinality({ n \in 1..Len(results.errors) :
                            results.errors[n].record = k }) = 1

\* C7: when query building or the fetch raises, the run has validated no
\* record and attempted no write, every counter is 0, the error list holds
\* exactly one message, and the exception reached the caller.
C7_FatalPrerequisiteAborts ==
    (pc = "raised" /\ raised \in {"build_apollo_search_url failed", "Actor execution failed"}) =>
        /\ i = 0
        /\ raw_data = <<>>
        /\ results.raw_records_fetched = 0
        /\ prospects_data = <<>> /\ companies_data = <<>>
        /\ \A n \in 1..Len(calls) :
              calls[n] \notin {"append_rows Prospects", "append_rows Companies"}
        /\ sheets.Prospects = <<>> /\ sheets.Companies = <<>>
        /\ results.valid_prospects = 0 /\ results.invalid_prospects = 0
        /\ results.prospects_inserted = 0 /\ results.companies_inserted = 0
        /\ Len(results.errors) = 1
        /\ results.errors[1].text = raised
        /\ raised # ""

C7_Witness ==
    /\ pc = "raised"
    /\ calls = <<"build_apollo_search_url", "run_actor_and_fetch_data">>
    /\ raised = "Actor execution failed"

\* C8: when a run ends with a whole-run error, the error is the last entry
\* of the RunResult's error list and the caller holds both the exception and
\* that RunResult.
C8_CallerReceivesResults ==
    pc = "raised" =>
        /\ raised # ""
        /\ results.errors[Len(results.errors)].text = raised
        /\ returned = <<results>>

\* the five stages of the design, as positions of run
Stage(p) ==
    CASE p = "build" -> 1
      [] p = "fetch" -> 2
      [] p = "validate" -> 3
      [] p = "dedup" -> 4
      [] OTHER -> 5

\* C9 as stated: the five stages are entered in order, each at most once,
\* so no step leads from a stage back to an earlier one.
C9_StagesNeverReentered ==
    [][Stage(pc') >= Stage(pc)]_vars

\* the stages with Validate+Project and Deduplicate taken as one loop
Phase(p) ==
    CASE p = "build" -> 1
      [] p = "fetch" -> 2
      [] p \in {"validate", "dedup"} -> 3
      [] OTHER -> 4

\* C9 as amended: BuildQuery, Fetch, the record loop and Persist are entered
\* in that order, each at most once; inside the loop every accepted record
\* is validated and projected, then deduplicated, before the next record is
\* validated.  The fetch is invoked only after the query was built, records
\* are validated only after the fetch returned, and a write is issued only
\* after every fetched record was accepted or rejected.
C9_PhasesInOrder ==
    /\ [][ /\ Phase(pc') >= Phase(pc)
           /\ (pc = "dedup" => pc' \in {"validate", "upsert_prospects"})
           /\ (pc' = "dedup" => pc = "validate" /\ i' = i)
           /\ (pc = "validate" /\ pc' = "validate" => i' = i + 1) ]_vars
    /\ []( /\ \E n \in 0..4 :
               calls = SubSeq(<<"build_apollo_search_url", "run_actor_and_fetch_data",
                                "append_rows Prospects", "append_rows Companies">>, 1, n)
            /\ (Phase(pc) >= 2 /\ pc # "raised" => apollo_url # NoUrl)
            /\ (Len(calls) >= 2 => apollo_url # NoUrl)
            /\ (pc \in {"validate", "dedup"} \/ i > 0 =>
                  Len(calls) >= 2 /\ results.raw_records_fetched = Len(raw_data))
            /\ (Len(calls) >= 3 => i = Len(raw_data) /\ prospect_row = <<>>) )

C9_Witness ==
    /\ pc = "returned"
    /\ Len(raw_data) = 3
    /\ Len(calls) = 4
    /\ results.invalid_prospects = 1

\* C10: a Companies write that fails after the Prospects write succeeded is
\* re-raised to the caller, and the RunResult keeps its counts:
\* raw_records_fetched, valid_prospects and invalid_prospects as they were,
\* prospects_inserted the number of ProspectRows written, companies_inserted 0.
C10_CompaniesFailureKeepsCounts ==
    (pc = "raised" /\ calls[Len(calls)] = "append_rows Companies") =>
        /\ raised = "Companies write failed"
        /\ returned = <<>>
        /\ results.errors[Len(results.errors)].text = raised
        /\ results.raw_records_fetched = Len(raw_data)
        /\ results.valid_prospects = Len(prospects_data)
        /\ results.invalid_prospects = Len(raw_data) - Len(prospects_data)
        /\ results.prospects_inserted = Len(prospects_data)
        /\ Len(sheets.Prospects) >= Len(prospects_data)
        /\ results.companies_inserted = 0

C10_Witness ==
    /\ pc = "raised"
    /\ raised = "Companies write failed"
    /\ results.prospects_inserted = 2
    /\ Len(companies_data) = 2

\* the run is over and had at least one accepted record
EndedWithProspects == pc \in {"returned", "raised"} /\ prospects_data # <<>>

\* the rows of an append_rows call list, column by column, the fields of
\* the given row dictionaries named by its header
RowsFollowHeader(call, dicts) ==
    /\ Len(call.rows) = Len(dicts)
    /\ \A k \in 1..Len(dicts) :
          /\ call.rows[k].kind = "data"
          /\ Len(call.rows[k].cells) = Len(call.header_row)
          /\ \A c \in 1..Len(call.header_row) :
                call.rows[k].cells[c] = dicts[k][call.header_row[c]]

\* C11 as stated: a run that reaches Persist with at least one accepted
\* record issues exactly one append to Prospects and exactly one append to
\* Companies, each with its header and all its rows in header order.
C11_OneAppendPerTarget ==
    EndedWithProspects =>
        /\ Len(appends) = 2
        /\ appends[1].sheet_name = "Prospects"
        /\ appends[2].sheet_name = "Companies"
        /\ RowsFollowHeader(appends[1], prospects_data)
        /\ RowsFollowHeader(appends[2], companies_data)

\* C11 as amended: such a run issues exactly one append to Prospects,
\* carrying all ProspectRows under the Prospects header, and then exactly
\* one append to Companies, carrying all CompanyRows under the Companies
\* header, unless the Prospects append failed, in which case no append to
\* Companies is issued; every data row lists its values in header order.
C11_AppendsFollowHeaders ==
    EndedWithProspects =>
        /\ Len(appends) = IF raised = "Prospects write failed" THEN 1 ELSE 2
        /\ appends[1].sheet_name = "Prospects"
        /\ appends[1].header_row =
             <<"id", "first_name", "last_name", "email", "company_id",
               "title", "linkedin_url", "phase", "created_at", "updated_at">>
        /\ RowsFollowHeader(appends[1], prospects_data)
        /\ Len(appends) = 2 =>
             /\ appends[2].sheet_name = "Companies"
             /\ appends[2].header_row =
                  <<"id", "name", "domain", "industry", "size",
                    "location", "description", "created_at">>
             /\ RowsFollowHeader(appends[2], companies_data)

C11_Witness ==
    /\ pc = "returned"
    /\ Len(appends) = 2
    /\ Len(appends[1].rows) = 3
    /\ Len(appends[2].rows) = 2
    /\ Len(sheets.Prospects) = 4

\* ------------------------------------------------------ query specification
\* target criteria with every criterion absent, empty or given
QueryTargets ==
    [ is_dict : {TRUE},
      company_size : {Missing, "", "1-50"},
      industry : {Missing, "", "All"},
      location : {Missing, "", "Germany"},
      job_titles : { <<Missing>>, <<>>, <<"CEO", "CTO">>, <<"CTO", "HR", "CEO">> } ]

\* requested record counts around the API limit
QueryTotals == {0, 10, 50000, 50001}

QueryBatches == { <<>>, <<RecAcme>> }

InitQuery ==
    /\ UpsertIdle
    /\ TemplateIdle
    /\ pc = "build"
    /\ targets \in QueryTargets
    /\ total_records \in QueryTotals
    /\ apollo_url = NoUrl
    /\ run_input = NoInput
    /\ raw_data = <<>>
    /\ i = 0
    /\ results = InitResults(total_records)
    /\ prospects_data = <<>>
    /\ companies_data = <<>>
    /\ companies_seen = {}
    /\ prospect_row = <<>>
    /\ company_row = <<>>
    /\ uuid = 0
    /\ now = 0
    /\ sheets = [ Prospects |-> <<>>, Companies |-> <<>> ]
    /\ calls = <<>>
    /\ appends = <<>>
    /\ second_run = FALSE
    /\ returned = <<>>
    /\ raised = ""

NextQuery ==
    \/ BuildQuery
    \/ Fetch(QueryBatches)
    \/ ValidateProject
    \/ Deduplicate
    \/ UpsertProspects
    \/ UpsertCompanies
    \/ DisplayAndReturn

SpecQuery == InitQuery /\ [][NextQuery]_vars

\* the parameters of the built URL that carry the given key
ParamsWithKey(url, key) ==
    { k \in 1..Len(url.params) : url.params[k][1] = key }

\* C12: the built query string has a parameter for company size, industry,
\* location or job title only if the target criteria give that criterion
\* with a non-empty value.
C12_AbsentCriteriaOmitted ==
    apollo_url # NoUrl =>
        /\ ParamsWithKey(apollo_url, "organizationNumEmployeesRanges[]") # {}
             => targets.company_size \notin {Missing, ""}
        /\ ParamsWithKey(apollo_url, "qOrganizationKeywordTags[]") # {}
             => targets.industry \notin {Missing, ""}
        /\ ParamsWithKey(apollo_url, "personLocations[]") # {}
             => targets.location \notin {Missing, ""}
        /\ ParamsWithKey(apollo_url, "personTitles[]") # {}
             => targets.job_titles \notin { <<Missing>>, <<>> }

\* C13: for a given job-title list of length n the query string ends with
\* exactly n personTitles[] parameters, one per title and in list order,
\* placed after the size, industry and location parameters and joined to
\* them by "&".
C13_OneParameterPerTitle ==
    (apollo_url # NoUrl /\ targets.job_titles # <<Missing>>) =>
        LET P == apollo_url.params
            T == apollo_url.text
            n == Len(targets.job_titles)
        IN /\ Cardinality(ParamsWithKey(apollo_url, "personTitles[]")) = n
           /\ Len(P) >= n
           /\ \A k \in 1..n :
                 P[Len(P) - n + k] = <<"personTitles[]", targets.job_titles[k]>>
           /\ Cardinality({ k \in 1..Len(T) : T[k] = "personTitles[]" }) = n
           /\ \A k \in 1..n :
                 /\ T[Len(T) - 4 * (n - k) - 2] = "personTitles[]"
                 /\ T[Len(T) - 4 * (n - k) - 1] = "="
                 /\ T[Len(T) - 4 * (n - k)] = targets.job_titles[k]
           /\ T[1] = "https://app.apollo.io/#/people"
           /\ Cardinality({ k \in 1..Len(T) : T[k] = "&" })
                = IF Len(P) = 0 THEN 0 ELSE Len(P) - 1

C13_Witness ==
    /\ pc = "fetch"
    /\ targets.job_titles = <<"CTO", "HR", "CEO">>
    /\ targets.industry = ""
    /\ Len(apollo_url.params) = 5

\* C14: the record-count ceiling handed to the actor is min(n, 50000) for
\* the requested count n: never above 50000, and n itself when n <= 50000.
C14_CeilingClamped ==
    run_input # NoInput =>
        /\ run_input.totalRecords <= 50000
        /\ total_records <= 50000 => run_input.totalRecords = total_records
        /\ total_records > 50000 => run_input.totalRecords = 50000

C14_Witness ==
    /\ total_records = 50001
    /\ run_input.totalRecords = 50000
    /\ Len(calls) = 2

\* ----------------------------------------------------- entity specification
\* longest batch of the entity specification
MaxEntityBatch == 1

\* raw email values: padded and mixed-case valid addresses, a plain one and
\* malformed ones
EmailInputs ==
    { <<" ","B","@","b",".","C","O"," ">>,
      <<"a","@","B",".","C","o">>,
      <<"\t","A",".","b","@","c","-","d",".","I","O","\n">>,
      GoodEmail,
      <<"a","@","b">>,
      <<"a"," ","b","@","c",".","d","e">>,
      <<"@","b",".","c","o">> }

\* raw linkedin_url values: absent, empty, without a scheme (plain and
\* padded), with either scheme, and one that merely starts with "http"
LinkedinInputs ==
    { None, <<>>,
      <<"l","i","/","x">>,
      <<" ","l","i","/","x"," ">>,
      <<"h","t","t","p",":","/","/","x">>,
      <<"h","t","t","p","s",":","/","/","x">>,
      <<"h","t","t","p","x">> }

\* raw organization_website_url values
WebsiteInputs ==
    { None, <<>>,
      <<"h","t","t","p","s",":","/","/","w","w","w",".","e","x",".","c","o","/">>,
      <<"h","t","t","p",":","/","/","e","x",".","c","o">>,
      <<"w","w","w",".","e","x",".","c","o">>,
      <<"e","x",".","c","o">>,
      <<"h","t","t","p","s",":","/","/","a","w","w","w",".","e","x",".","c","o">>,
      <<"e","x",".","c","o","/","/">> }

EntityBase == Raw(<<"E","d">>, <<"Y","o">>, GoodEmail, Beta)

EntityRecords ==
    {[EntityBase EXCEPT !.email = v] : v \in EmailInputs}
    \cup {[EntityBase EXCEPT !.linkedin_url = v] : v \in LinkedinInputs}
    \cup {[EntityBase EXCEPT !.organization_website_url = v] : v \in WebsiteInputs}

EntityBatches == UNION {[1..n -> EntityRecords] : n \in 0..MaxEntityBatch}

NextEntity ==
    \/ BuildQuery
    \/ Fetch(EntityBatches)
    \/ ValidateProject
    \/ Deduplicate
    \/ UpsertProspects
    \/ UpsertCompanies
    \/ DisplayAndReturn

SpecEntity == Init /\ [][NextEntity]_vars

\* the record the loop is working on
CurrentRaw == raw_data[i + 1]

\* the record's email is a valid address once its surrounding whitespace is
\* removed, and its other required fields are given
HasValidAddress(raw) ==
    /\ raw.is_dict
    /\ raw.email # None
    /\ MatchesEmailPattern(Strip(raw.email))
    /\ ~LacksRequired(raw)

NoUpperCase(s) == \A k \in 1..Len(s) : s[k] \notin Range(UpperChars)

Trimmed(s) == s = <<>> \/ (s[1] \notin Whitespace /\ s[Len(s)] \notin Whitespace)

\* C15 (state part): the email of every accepted entity is the lower-cased,
\* trimmed raw address, matches the address pattern, and is accepted
\* unchanged when validated again.
C15_AcceptedEmailNormalized ==
    pc = "dedup" =>
        LET em == prospect_row[1].email IN
        /\ em = Strip(Lower(CurrentRaw.email))
        /\ NoUpperCase(em) /\ Trimmed(em)
        /\ MatchesEmailPattern(em)
        /\ EmailAccepted(em)
        /\ validate_email(StripField(em)) = em

\* C15 (step part): a record whose email is a valid address written with
\* mixed case and surrounding whitespace is accepted by validation.
C15_PaddedAddressAccepted ==
    (pc = "validate" /\ HasValidAddress(CurrentRaw)) => pc' = "dedup"

\* C15: valid addresses with mixed case and surrounding whitespace are
\* accepted and stored lower-cased and trimmed; every accepted email
\* matches the pattern; validating the output again gives the same email.
C15_EmailNormalized ==
    [](C15_AcceptedEmailNormalized) /\ [][C15_PaddedAddressAccepted]_vars

C15_Witness ==
    /\ pc = "dedup"
    /\ CurrentRaw.email = <<"\t","A",".","b","@","c","-","d",".","I","O","\n">>
    /\ prospect_row[1].email = <<"a",".","b","@","c","-","d",".","i","o">>

HasScheme(s) ==
    \/ StartsWith(s, <<"h","t","t","p",":","/","/">>)
    \/ StartsWith(s, <<"h","t","t","p","s",":","/","/">>)

\* C16: the linkedin_url of an accepted entity, when one was given, begins
\* with http:// or https://; a (trimmed) value without a scheme has
\* https:// prepended, one with a scheme is kept as it is, and coercing the
\* stored value again changes nothing.
C16_LinkedinHasScheme ==
    (pc = "dedup" /\ Truthy(CurrentRaw.linkedin_url)
                  /\ Strip(CurrentRaw.linkedin_url) # <<>>) =>
        LET given == Strip(CurrentRaw.linkedin_url)
            stored == prospect_row[1].linkedin_url
        IN /\ HasScheme(stored)
           /\ ~HasScheme(given) =>
                 stored = <<"h","t","t","p","s",":","/","/">> \o given
           /\ HasScheme(given) => stored = given
           /\ validate_linkedin_url(stored) = stored

C16_Witness ==
    /\ pc = "dedup"
    /\ CurrentRaw.linkedin_url = <<" ","l","i","/","x"," ">>
    /\ prospect_row[1].linkedin_url = <<"h","t","t","p","s",":","/","/","l","i","/","x">>

\* s without the prefix p when it starts with p
DropPrefix(s, p) == IF StartsWith(s, p) THEN SubSeq(s, Len(p) + 1, Len(s)) ELSE s

\* the URL with its leading scheme, then its leading www., then one trailing
\* slash removed
LeadingPartsRemoved(u) ==
    LET a == DropPrefix(DropPrefix(u, <<"h","t","t","p",":","/","/">>),
                        <<"h","t","t","p","s",":","/","/">>)
        b == DropPrefix(a, <<"w","w","w",".">>)
    IN IF b # <<>> /\ b[Len(b)] = "/" THEN SubSeq(b, 1, Len(b) - 1) ELSE b

\* C17: the CompanyRow's domain is the website URL with the leading scheme,
\* the leading www. and a trailing slash removed and nothing else changed;
\* it is empty when the record has no website.
C17_DomainOnlyLeadingPartsRemoved ==
    pc = "dedup" =>
        company_row[1].domain =
            IF Truthy(CurrentRaw.organization_website_url)
            THEN LeadingPartsRemoved(Strip(CurrentRaw.organization_website_url))
            ELSE <<>>

\* positions of the accepted records among the first n of a batch whose
\* normalized organization name no earlier accepted record carries
FirstSeenPositions(batch, n) ==
    LET acc == AcceptedPositions(batch, n)
        IsFirst(p) == \A q \in 1..(p - 1) :
                         (batch[q].is_dict /\ PassesValidation(batch[q]))
                            => NormalizedOrg(batch[q]) # NormalizedOrg(batch[p])
    IN SelectSeq(acc, IsFirst)

\* C18: the prospect batch lists the rows of the valid records in their
\* order of arrival, and the company batch lists the company rows in the
\* order in which their normalized names were first seen among the valid
\* records.
C18_BatchesInArrivalOrder ==
    LET acc == AcceptedPositions(raw_data, i)
        first == FirstSeenPositions(raw_data, i)
    IN /\ Len(prospects_data) = Len(acc)
       /\ \A k \in 1..Len(prospects_data) :
             /\ prospects_data[k].first_name = Strip(raw_data[acc[k]].first_name)
             /\ prospects_data[k].last_name = Strip(raw_data[acc[k]].last_name)
             /\ prospects_data[k].email = Strip(Lower(raw_data[acc[k]].email))
       /\ Len(companies_data) = Len(first)
       /\ \A k \in 1..Len(companies_data) :
             /\ companies_data[k].name = Strip(raw_data[first[k]].organization_name)
             /\ company_key(companies_data[k]) = NormalizedOrg(raw_data[first[k]])

C18_Witness ==
    /\ LoopOver
    /\ raw_data = <<RecBeta, RecAcmePadded, RecAcme>>
    /\ Len(prospects_data) = 3
    /\ Len(companies_data) = 2
    /\ companies_data[1].name = Beta
    /\ companies_data[2].name = <<"a","c","m","e"," ","i","n","c">>

\* ------------------------------------------------ two runs, one orchestrator
\* longest batch of a run in the two-run specification
MaxRunBatch == 1

RunRecords == {RecAcme, RecAcmePadded, RecNoEmail}

RunBatches == UNION {[1..n -> RunRecords] : n \in 0..MaxRunBatch}

\* a seen-set that outlives the run
NewCompaniesSeenKept(seen) == seen

\* _process_records_with_progress line 180: companies_seen = set()
NewCompaniesSeen(seen) == {}

\* a second call of run on the same DiscoveryFlow: results (lines 62-70) and
\* the batches and seen-set (lines 178-180) are created anew; the worksheets
\* and the uuid and clock sources are not part of the run
StartRun ==
    /\ pc \in {"returned", "raised"}
    /\ ~second_run
    /\ second_run' = TRUE
    /\ pc' = "build"
    /\ targets' \in TargetInputs
    /\ total_records' \in TotalRecordsInputs
    /\ results' = InitResults(total_records')
    /\ apollo_url' = NoUrl
    /\ run_input' = NoInput
    /\ raw_data' = <<>>
    /\ i' = 0
    /\ prospects_data' = <<>>
    /\ companies_data' = <<>>
    /\ companies_seen' = NewCompaniesSeen(companies_seen)
    /\ prospect_row' = <<>>
    /\ company_row' = <<>>
    /\ calls' = <<>>
    /\ appends' = <<>>
    /\ returned' = <<>>
    /\ raised' = ""
    /\ UNCHANGED <<upsert_vars, template_vars, uuid, now, sheets>>

NextRuns ==
    \/ BuildQuery
    \/ Fetch(RunBatches)
    \/ ValidateProject
    \/ Deduplicate
    \/ UpsertProspects
    \/ UpsertCompanies
    \/ DisplayAndReturn
    \/ StartRun

SpecRuns == Init /\ [][NextRuns]_vars

\* the data rows of a worksheet, in sheet order
DataRows(ws) ==
    LET IsData(r) == r.kind = "data" IN SelectSeq(ws, IsData)

\* the normalized company name held in a Companies data row
RowKey(r) == Strip(Lower(r.cells[2]))

\* how many of the rows carry the normalized name key
RowsWithKey(rows, key) == Cardinality({ k \in 1..Len(rows) : RowKey(rows[k]) = key })

\* C19: deduplication state and statistics belong to one run.  The second
\* run starts from zero counts and an empty error list; it emits exactly one
\* CompanyRow for every normalized name among its valid records, whatever
\* the first run emitted; and when it returns, its company rows have been
\* added after the rows the first run left, so a name both runs wrote is
\* held by two rows of the Companies target.
C19_SecondRunStartsAfresh ==
    second_run =>
        /\ pc = "build" =>
              /\ results = InitResults(total_records)
              /\ results.raw_records_fetched = 0
              /\ results.valid_prospects = 0
              /\ results.invalid_prospects = 0
              /\ results.prospects_inserted = 0
              /\ results.companies_inserted = 0
              /\ results.errors = <<>>
        /\ LET acc == AcceptedPositions(raw_data, i) IN
              /\ results.valid_prospects = Len(acc)
              /\ Len(companies_data) = Len(FirstSeenPositions(raw_data, i))
              /\ \A k \in 1..Len(acc) :
                    Cardinality({ m \in 1..Len(companies_data) :
                        company_key(companies_data[m]) = NormalizedOrg(raw_data[acc[k]]) }) = 1
        /\ (pc = "returned" /\ companies_data # <<>>) =>
              LET data == DataRows(sheets.Companies)
                  n == Len(companies_data)
                  before == SubSeq(data, 1, Len(data) - n)
              IN /\ Len(data) >= n
                 /\ \A k \in 1..n :
                       /\ data[Len(data) - n + k] = CompanyCells(companies_data[k])
                       /\ RowsWithKey(data, company_key(companies_data[k]))
                            = RowsWithKey(before, company_key(companies_data[k])) + 1

C19_Witness ==
    /\ second_run
    /\ pc = "returned"
    /\ Len(companies_data) = 1
    /\ Len(DataRows(sheets.Companies)) = 2
    /\ RowsWithKey(DataRows(sheets.Companies), <<"a","c","m","e"," ","i","n","c">>) = 2
    /\ results.companies_inserted = 1

\* a worksheet that is empty or holds its header as row 1 and only data
\* rows below it
OneHeaderThenRows(ws, header) ==
    ws # <<>> =>
        /\ ws[1] = HeaderRow(header)
        /\ \A k \in 2..Len(ws) : ws[k].kind = "data"

\* C20: after any sequence of append_rows calls with the same header on an
\* initially empty target, the target holds exactly one header row, as row
\* 1, followed by the appended data rows.
C20_OneHeaderThenRows ==
    /\ OneHeaderThenRows(sheets.Prospects, ProspectsHeader)
    /\ OneHeaderThenRows(sheets.Companies, CompaniesHeader)

\* --------------------------------------------------------- upsert by key
\* most rows (header included) a worksheet holds before upsert_row is
\* called once more
MaxTableRows == 3

\* dict.keys() / dict.values() of a row_data given as its items, in
\* insertion order
Keys(row_data) == [k \in 1..Len(row_data) |-> row_data[k][1]]
Values(row_data) == [k \in 1..Len(row_data) |-> row_data[k][2]]

\* row_data.get(key, default)
DictGet(row_data, key, default) ==
    IF \E k \in 1..Len(row_data) : row_data[k][1] = key
    THEN row_data[CHOOSE k \in 1..Len(row_data) : row_data[k][1] = key][2]
    ELSE default

\* worksheet.row_values(1)
RowValues1(ws) == IF ws = <<>> THEN <<>> ELSE ws[1]

\* list.index(col_name) + 1
ColumnOf(header_row, col_name) ==
    CHOOSE c \in 1..Len(header_row) :
        /\ header_row[c] = col_name
        /\ \A d \in 1..(c - 1) : header_row[d] # col_name

\* record.get(key_column, "") for the record of sheet row r (r >= 2)
RecordGet(ws, r, key_column) ==
    IF \E c \in 1..Len(ws[1]) : ws[1][c] = key_column
    THEN ws[r][ColumnOf(ws[1], key_column)]
    ELSE ""

\* find_and_update_rows lines 175-179: sheet row of the first record whose
\* key column holds key_value, 0 (None) when there is none
RowIndex(ws, key_column, key_value) ==
    IF \E r \in 2..Len(ws) : RecordGet(ws, r, key_column) = key_value
    THEN CHOOSE r \in 2..Len(ws) :
            /\ RecordGet(ws, r, key_column) = key_value
            /\ \A q \in 2..(r - 1) : RecordGet(ws, q, key_column) # key_value
    ELSE 0

\* find_and_update_rows lines 183-187: update_cell for every column of
\* update_data that the header names
UpdateCells(ws, r, update_data) ==
    [ws EXCEPT ![r] = [c \in 1..Len(ws[r]) |->
        DictGet(update_data, ws[1][c], ws[r][c])]]

\* find_and_update_rows: the result and the worksheet afterwards.  read_ok
\* is FALSE when reading the worksheet raises; the except clause of line
\* 195 then returns False
find_and_update_rows(ws, key_column, key_value, update_data, read_ok) ==
    IF ~read_ok
    THEN [ updated |-> FALSE, ws |-> ws ]
    ELSE LET row_index == RowIndex(ws, key_column, key_value) IN
         IF row_index # 0
         THEN [ updated |-> TRUE, ws |-> UpdateCells(ws, row_index, update_data) ]
         ELSE [ updated |-> FALSE, ws |-> ws ]

\* upsert_row lines 216-232: the row appended when nothing was updated
InsertRow(ws, row_data) ==
    LET header_row == RowValues1(ws)
        new_row == [c \in 1..Len(header_row) |-> DictGet(row_data, header_row[c], "")]
    IN IF header_row = <<>>
       THEN ws \o <<Keys(row_data), Values(row_data)>>
       ELSE Append(ws, new_row)

\* SheetsClient.upsert_row(sheet_name, key_column, row_data)
upsert_row(ws, key_column, row_data, read_ok) ==
    LET key_value == DictGet(row_data, key_column, "")
        found == find_and_update_rows(ws, key_column, key_value, row_data, read_ok)
    IN IF key_value = "" THEN ws
       ELSE IF found.updated THEN found.ws
       ELSE InsertRow(found.ws, row_data)

\* the key column of the calls
KeyColumn == "id"

\* row_data arguments: two key values, two orders of the keys, a column the
\* header may lack, a missing and an empty key
RowDataInputs ==
    { << <<"id", "k1">>, <<"name", "a">> >>,
      << <<"id", "k1">>, <<"name", "b">> >>,
      << <<"id", "k2">>, <<"name", "a">> >>,
      << <<"name", "c">>, <<"id", "k2">> >>,
      << <<"id", "k1">>, <<"note", "n">> >>,
      << <<"name", "a">> >>,
      << <<"id", "">>, <<"name", "a">> >> }

\* worksheets the calls start from: empty, header only, one row per key
TableInputs ==
    { <<>>,
      << <<"id", "name">> >>,
      << <<"id", "name">>, <<"k1", "a">> >>,
      << <<"name", "id">>, <<"a", "k2">>, <<"b", "k1">> >> }

InitUpsert ==
    /\ table \in TableInputs
    /\ TemplateIdle
    /\ pc = "build"
    /\ targets \in TargetInputs
    /\ total_records \in TotalRecordsInputs
    /\ apollo_url = NoUrl
    /\ run_input = NoInput
    /\ raw_data = <<>>
    /\ i = 0
    /\ results = InitResults(total_records)
    /\ prospects_data = <<>>
    /\ companies_data = <<>>
    /\ companies_seen = {}
    /\ prospect_row = <<>>
    /\ company_row = <<>>
    /\ uuid = 0
    /\ now = 0
    /\ sheets = [ Prospects |-> <<>>, Companies |-> <<>> ]
    /\ calls = <<>>
    /\ appends = <<>>
    /\ second_run = FALSE
    /\ returned = <<>>
    /\ raised = ""

\* one call of upsert_row
UpsertRow ==
    /\ Len(table) <= MaxTableRows
    /\ \E row_data \in RowDataInputs, read_ok \in BOOLEAN :
          table' = upsert_row(table, KeyColumn, row_data, read_ok)
    /\ UNCHANGED <<run_vars, template_vars>>

NextUpsert == UpsertRow

SpecUpsert == InitUpsert /\ [][NextUpsert]_vars

\* the key values held in the key column of the worksheet's data rows
KeyCells(ws) ==
    [r \in 1..(Len(ws) - 1) |-> RecordGet(ws, r + 1, KeyColumn)]

\* C21: upsert_row is an upsert by key: after any sequence of upsert_row
\* calls on a worksheet that starts with unique keys, no two rows hold the
\* same key value.
C21_AtMostOneRowPerKey ==
    table # <<>> =>
        \A r, q \in 1..(Len(table) - 1) :
            (KeyCells(table)[r] # "" /\ KeyCells(table)[r] = KeyCells(table)[q]) => r = q

\* ---------------------------------------------------- undeclared fields
\* longest batch of the undeclared-fields specification
MaxExtraBatch == 1

\* sets of field names ApifyProspect does not declare, as the samples of
\* test_schema_fix.py carry them; company_name is also the name of a
\* property of the model
ExtraInputs == { {}, {"photo_url"}, {"seniority", "company_name"} }

ExtraRecords ==
    { [r EXCEPT !.extra = x] : r \in {RecAcme, RecBeta, RecNoEmail, RecBadEmail},
                               x \in ExtraInputs }

ExtraBatches == UNION {[1..n -> ExtraRecords] : n \in 0..MaxExtraBatch}

NextExtra ==
    \/ BuildQuery
    \/ Fetch(ExtraBatches)
    \/ ValidateProject
    \/ Deduplicate
    \/ UpsertProspects
    \/ UpsertCompanies
    \/ DisplayAndReturn

SpecExtra == Init /\ [][NextExtra]_vars

\* the record without its undeclared fields
Canonical(raw) == [raw EXCEPT !.extra = {}]

\* the fields of a ProspectRow that are not generated identifiers or times
ProspectContent(p) ==
    <<p.first_name, p.last_name, p.email, p.title, p.linkedin_url, p.phase>>

\* the fields of a CompanyRow that are not generated identifiers or times
CompanyContent(c) ==
    <<c.name, c.domain, c.industry, c.size, c.location, c.description>>

\* C22 (state part): the rows built from a record are, in every field that
\* is not generated, the rows built from the same record without its
\* undeclared fields.
C22_RowsIgnoreUnknownFields ==
    pc = "dedup" =>
        LET e == ApifyProspect(Canonical(CurrentRaw)) IN
        /\ ProspectContent(prospect_row[1]) = ProspectContent(to_prospect_row(e, 0, 0))
        /\ CompanyContent(company_row[1]) = CompanyContent(to_company_row(e, 0, 0))

\* C22 (step part): validation accepts a record exactly when it accepts the
\* same record without its undeclared fields.
C22_AcceptanceIgnoresUnknownFields ==
    (pc = "validate" /\ CurrentRaw.is_dict) =>
        ((pc' = "dedup") <=> PassesValidation(Canonical(CurrentRaw)))

\* C22: unknown fields never cause rejection: adding fields outside the
\* canonical schema changes neither whether a record is accepted nor any
\* non-generated field of its ProspectRow and CompanyRow.
C22_UnknownFieldsTolerated ==
    [](C22_RowsIgnoreUnknownFields) /\ [][C22_AcceptanceIgnoresUnknownFields]_vars

C22_Witness ==
    /\ pc = "dedup"
    /\ CurrentRaw.extra = {"seniority", "company_name"}
    /\ company_row[1].name = AcmeInc
    /\ prospect_row[1].first_name = <<"A","l">>

\* C23: an exception other than a validation error raised while processing
\* record i+1 stays inside the loop: that step raises invalid_prospects by
\* exactly one, appends exactly one error entry naming position i+1, adds
\* no row to either batch, raises nothing to the caller and goes on with
\* the next record (or leaves the loop after the last one).
C23_ProcessingErrorRecorded ==
    [][ (pc = "validate" /\ ~CurrentRaw.is_dict) =>
          /\ results'.invalid_prospects = results.invalid_prospects + 1
          /\ results'.valid_prospects = results.valid_prospects
          /\ Len(results'.errors) = Len(results.errors) + 1
          /\ SubSeq(results'.errors, 1, Len(results.errors)) = results.errors
          /\ results'.errors[Len(results'.errors)].record = i + 1
          /\ prospects_data' = prospects_data
          /\ companies_data' = companies_data
          /\ raised' = ""
          /\ i' = i + 1
          /\ pc' = IF i + 1 < Len(raw_data) THEN "validate" ELSE "upsert_prospects" ]_vars

C23_Witness ==
    /\ pc = "returned"
    /\ raw_data = <<RecAcme, RecNotDict, RecBeta>>
    /\ Len(results.errors) = 1
    /\ results.errors[1].record = 2
    /\ results.invalid_prospects = 1
    /\ Len(prospects_data) = 2

\* the identifiers returned so far by the uuid4 call of to_company_row: the
\* third of the three identifiers generated for each accepted record
CompanyRowIds == { k \in 1..uuid : k % 3 = 0 }

\* the rows handed to the Prospects write
WrittenProspectRows ==
    IF appends # <<>> /\ appends[1].sheet_name = "Prospects"
    THEN appends[1].rows ELSE <<>>

\* C24 (state part): every row of the prospect batch, and every row handed
\* to the Prospects write, carries a company_id returned by to_company_row.
C24_CompanyIdsFromCompanyRows ==
    /\ \A k \in 1..Len(prospects_data) :
          prospects_data[k].company_id \in CompanyRowIds
    /\ Len(WrittenProspectRows) \in {0, Len(prospects_data)}
    /\ \A k \in 1..Len(WrittenProspectRows) :
          /\ WrittenProspectRows[k].cells[5] = prospects_data[k].company_id
          /\ WrittenProspectRows[k].cells[5] \in CompanyRowIds

\* C24 (step part): the step that adds a row to the prospect batch, which
\* comes before the Persist stage, replaces the placeholder of
\* to_prospect_row by the identifier of the company row built for the
\* same record.
C24_PlaceholderOverwritten ==
    pc = "dedup" =>
        /\ Len(prospects_data') = Len(prospects_data) + 1
        /\ prospects_data'[Len(prospects_data')].company_id = company_row[1].id
        /\ prospects_data'[Len(prospects_data')].company_id # prospect_row[1].company_id
        /\ prospects_data'[Len(prospects_data')].id = prospect_row[1].id
        /\ pc' \in {"validate", "upsert_prospects"}

\* C24: the placeholder company identifier of to_prospect_row is never
\* persisted: it is overwritten, before the Persist stage, by an identifier
\* that a to_company_row call of the same run returned.
C24_PlaceholderNeverPersisted ==
    [](C24_CompanyIdsFromCompanyRows) /\ [][C24_PlaceholderOverwritten]_vars

C24_Witness ==
    /\ pc = "returned"
    /\ Len(sheets.Prospects) = 4
    /\ sheets.Prospects[2].cells[5] = 3
    /\ sheets.Prospects[3].cells[5] = 6
    /\ sheets.Prospects[4].cells[5] = 9

\* ------------------------------------------------ process_apollo_records
\* longest input list of process_apollo_records
MaxTemplateBatch == 2

TplLongHeadline ==
    [ RecAcme EXCEPT !.headline = [k \in 1..(HeadlineCap + 1) |-> "h"] ]
TplLongDescription ==
    [ RecAcme EXCEPT
        !.organization_short_description = [k \in 1..(DescriptionCap + 1) |-> "d"],
        !.organization_seo_description = <<"s","e","o">> ]
TplLineBreaks ==
    [ RecBeta EXCEPT
        !.organization_short_description = <<"a","\n","b","\r","c">>,
        !.industry = <<"I","T">> ]
TplSeoOnly ==
    [ RecBeta EXCEPT
        !.organization_seo_description = <<"s","e","o">>,
        !.keywords = <<"x",","," ","y",",","z">>,
        !.organization_linkedin_url = <<"l","i","/","c">>,
        !.organization_founded_year = <<"1","8","6","8">>,
        !.organization_annual_revenue_printed = <<"8","M">>,
        !.estimated_num_employees = <<"8","0">> ]
TplPlain == Raw(<<"E","d">>, <<"Y","o">>, GoodEmail, Beta)

\* records with every kind of summary source, and records the loop skips
TemplateRecords ==
    { RecAcme, TplLongHeadline, TplLongDescription, TplLineBreaks, TplSeoOnly,
      TplPlain, RecNoEmail, RecEmptyEmail, RecBadEmail, RecNoFirst, RecNotDict }

TemplateBatches == UNION {[1..n -> TemplateRecords] : n \in 0..MaxTemplateBatch}

InitTemplate ==
    /\ template_input \in TemplateBatches
    /\ template_i = 0
    /\ template_data = <<>>
    /\ invalid_count = 0
    /\ validated = {}
    /\ UpsertIdle
    /\ pc = "build"
    /\ targets \in TargetInputs
    /\ total_records \in TotalRecordsInputs
    /\ apollo_url = NoUrl
    /\ run_input = NoInput
    /\ raw_data = <<>>
    /\ i = 0
    /\ results = InitResults(total_records)
    /\ prospects_data = <<>>
    /\ companies_data = <<>>
    /\ companies_seen = {}
    /\ prospect_row = <<>>
    /\ company_row = <<>>
    /\ uuid = 0
    /\ now = 0
    /\ sheets = [ Prospects |-> <<>>, Companies |-> <<>> ]
    /\ calls = <<>>
    /\ appends = <<>>
    /\ second_run = FALSE
    /\ returned = <<>>
    /\ raised = ""

\* a record without an email counted and then validated all the same
ValidatedPositionsAlways(checked, position, raw) == checked \cup {position}

\* the positions for which line 50 has run: a record whose email is missing
\* or empty leaves the loop body at line 44, before it
ValidatedPositions(checked, position, raw) ==
    IF raw.is_dict /\ Truthy(raw.email) THEN checked \cup {position} ELSE checked

\* process_apollo_records, one pass of the loop body (lines 38-60)
ProcessApolloRecord ==
    /\ template_i < Len(template_input)
    /\ LET raw == template_input[template_i + 1] IN
       /\ validated' = ValidatedPositions(validated, template_i + 1, raw)
       /\ IF ~raw.is_dict
          THEN \* raw_record.get raises; except Exception, lines 56-58
               /\ invalid_count' = invalid_count + 1
               /\ UNCHANGED template_data
          ELSE IF ~Truthy(raw.email)
          THEN \* lines 41-44
               /\ invalid_count' = invalid_count + 1
               /\ UNCHANGED template_data
          ELSE IF ~PassesValidation(raw)
          THEN \* line 50 raises; except Exception, lines 56-58
               /\ invalid_count' = invalid_count + 1
               /\ UNCHANGED template_data
          ELSE \* lines 50-54
               /\ template_data' = Append(template_data, to_template_row(ApifyProspect(raw)))
               /\ UNCHANGED invalid_count
    /\ template_i' = template_i + 1
    /\ UNCHANGED <<template_input, run_vars, upsert_vars>>

NextTemplate == ProcessApolloRecord

SpecTemplate == InitTemplate /\ [][NextTemplate]_vars

\* the record the k-th template row was built from
TemplateSource(k) == template_input[AcceptedPositions(template_input, template_i)[k]]

\* a raw optional field as validation leaves it: trimmed, empty when absent
Given(v) == IF v = None THEN <<>> ELSE Strip(v)

\* the description to_template_row reads: the short one, else the SEO one
DescriptionOf(raw) ==
    IF Truthy(raw.organization_short_description)
    THEN raw.organization_short_description
    ELSE RawGet(raw.organization_seo_description)

\* s is t cut to at most cap characters
CutTo(s, t, cap) ==
    /\ Len(s) <= cap
    /\ Len(s) <= Len(t)
    /\ s = SubSeq(t, 1, Len(s))
    /\ Len(t) <= cap => s = t
    /\ Len(t) > cap => Len(s) = cap

\* the row has the 16 template fields, and its Personal Summary is the
\* headline cut to 200 characters, else title-at-company, else empty
FieldsAndPersonalSummary(row, raw) ==
    /\ Keys(row) = TemplateFields
    /\ Len(row) = 16
    /\ LET ps == DictGet(row, "Personal Summary", <<>>) IN
       IF Given(raw.headline) # <<>>
       THEN CutTo(ps, Given(raw.headline), 200)
       ELSE IF Given(raw.title) # <<>>
       THEN ps = Given(raw.title) \o <<" ","a","t"," ">> \o Strip(raw.organization_name)
       ELSE ps = <<>>

\* C25 as stated: every template row has the 16 fields, its Personal
\* Summary follows the headline rule, and its Company Background is the
\* description cut to at most 500 characters, empty without a description.
C25_BackgroundIsCutDescription ==
    \A k \in 1..Len(template_data) :
        /\ FieldsAndPersonalSummary(template_data[k], TemplateSource(k))
        /\ CutTo(DictGet(template_data[k], "Company Background", <<>>),
                 DescriptionOf(TemplateSource(k)), 500)

\* the description with every line feed and carriage return made a space
OnOneLine(s) ==
    [k \in 1..Len(s) |-> IF s[k] \in {"\n", "\r"} THEN " " ELSE s[k]]

\* C25: every template row has exactly the 16 fixed fields; its Personal
\* Summary is the headline cut to at most 200 characters, else
\* title-at-company, else empty; its Company Background is the description,
\* with line breaks replaced by spaces, cut to at most 500 characters, and
\* empty when the record has no description.
C25_TemplateRowShape ==
    \A k \in 1..Len(template_data) :
        /\ FieldsAndPersonalSummary(template_data[k], TemplateSource(k))
        /\ CutTo(DictGet(template_data[k], "Company Background", <<>>),
                 OnOneLine(DescriptionOf(TemplateSource(k))), 500)

C25_Witness ==
    /\ template_input = <<TplLongHeadline, TplLongDescription>>
    /\ Len(template_data) = 2
    /\ Len(DictGet(template_data[1], "Personal Summary", <<>>)) = 200
    /\ Len(DictGet(template_data[2], "Company Background", <<>>)) = 500
    /\ DictGet(template_data[2], "Personal Summary", <<>>)
         = <<"C","E","O"," ","a","t"," ">> \o AcmeInc

\* the record's email key is missing or holds an empty value
LacksEmail(raw) == raw.is_dict /\ raw.email \in {None, <<>>}

\* the positions among the first n of the input whose record has an email
\* that is a valid address and whose other required fields are given
ValidPositions(batch, n) ==
    LET Valid(k) == HasValidAddress(batch[k])
    IN SelectSeq([k \in 1..n |-> k], Valid)

\* C30 (state part): after n passes the template rows plus the invalid
\* count account for exactly the n records handled; the rows are those of
\* the valid records, in input order; no record without an email was
\* validated.
C30_RowsAndInvalidPartition ==
    LET ok == ValidPositions(template_input, template_i) IN
    /\ Len(template_data) + invalid_count = template_i
    /\ template_i <= Len(template_input)
    /\ Len(template_data) = Len(ok)
    /\ \A k \in 1..Len(ok) :
          /\ DictGet(template_data[k], "First Name", <<>>)
                = Strip(template_input[ok[k]].first_name)
          /\ DictGet(template_data[k], "Email", <<>>)
                = Strip(Lower(template_input[ok[k]].email))
          /\ DictGet(template_data[k], "Personal Summary", <<>>)
                = extract_personal_summary(ApifyProspect(template_input[ok[k]]))
    /\ \A p \in 1..template_i :
          LacksEmail(template_input[p]) => p \notin validated

\* C30 (step part): every pass handles exactly one record: it either adds
\* one template row or raises the invalid count by one, never both, and
\* moves on to the next record whatever the outcome.
C30_OneOutcomePerRecord ==
    template_i' # template_i =>
        /\ template_i' = template_i + 1
        /\ \/ /\ Len(template_data') = Len(template_data) + 1
              /\ invalid_count' = invalid_count
           \/ /\ template_data' = template_data
              /\ invalid_count' = invalid_count + 1
        /\ SubSeq(template_data', 1, Len(template_data)) = template_data

\* C30: process_apollo_records partitions its input: each record gives
\* exactly one template row or one invalid count, never both; a record
\* with a missing or empty email is counted invalid without being
\* validated; no failure stops the loop; template rows keep input order.
C30_InputPartitioned ==
    [](C30_RowsAndInvalidPartition) /\ [][C30_OneOutcomePerRecord]_vars

C30_Witness ==
    /\ template_input = <<RecEmptyEmail, TplSeoOnly>>
    /\ template_i = 2
    /\ invalid_count = 1
    /\ Len(template_data) = 1
    /\ validated = {2}

\* the messages of the failures of the collaborators: query building, the
\* fetch and the two writes
CollaboratorFailures ==
    { "build_apollo_search_url failed", "Actor execution failed",
      "Prospects write failed", "Companies write failed" }

\* C26: a run in which query building, the fetch and every attempted write
\* succeed returns its RunResult to the caller without raising, its error
\* list holding per-record entries only, whatever batch was fetched.
C26_SuccessfulRunReturns ==
    (pc \in {"returned", "raised"} /\ raised \notin CollaboratorFailures) =>
        /\ pc = "returned"
        /\ raised = ""
        /\ returned = <<results>>
        /\ \A k \in 1..Len(results.errors) : results.errors[k].record >= 1

\* C27: at every point of a run valid_prospects is the number of rows in
\* the prospect batch, valid plus invalid never exceeds the number fetched,
\* prospects_inserted is 0 or valid_prospects, companies_inserted is 0 or
\* the number of company rows, and so
\* companies_inserted <= prospects_inserted <= valid_prospects
\* <= raw_records_fetched.
C27_CountersOrdered ==
    /\ results.valid_prospects = Len(prospects_data)
    /\ results.valid_prospects + results.invalid_prospects <= results.raw_records_fetched
    /\ results.prospects_inserted \in {0, results.valid_prospects}
    /\ results.companies_inserted \in {0, Len(companies_data)}
    /\ results.companies_inserted <= results.prospects_inserted
    /\ results.prospects_inserted <= results.valid_prospects
    /\ results.valid_prospects <= results.raw_records_fetched

C27_Witness ==
    /\ pc = "returned"
    /\ results.raw_records_fetched = 3
    /\ results.invalid_prospects = 1
    /\ results.valid_prospects = 2
    /\ results.prospects_inserted = 2
    /\ results.companies_inserted = 1

\* position of the first call with the given name, 0 when there is none
FirstCall(name) ==
    IF \E k \in 1..Len(calls) : calls[k] = name
    THEN CHOOSE k \in 1..Len(calls) :
            calls[k] = name /\ \A j \in 1..(k - 1) : calls[j] # name
    ELSE 0

\* C28 (state part): a Companies write is always preceded by the Prospects
\* write of the same run, and a run whose Prospects write failed has
\* attempted no Companies write and ends with both inserted counts 0,
\* although company rows had been built.
C28_NoCompaniesWriteAfterFailure ==
    /\ FirstCall("append_rows Companies") # 0 =>
          /\ FirstCall("append_rows Prospects") # 0
          /\ FirstCall("append_rows Prospects") < FirstCall("append_rows Companies")
    /\ raised = "Prospects write failed" =>
          /\ pc = "raised"
          /\ FirstCall("append_rows Companies") = 0
          /\ Len(appends) = 1
          /\ results.prospects_inserted = 0
          /\ results.companies_inserted = 0
          /\ companies_data # <<>>

\* C28 (step part): the Companies target changes only in the Companies
\* write, so a run that never attempts it leaves the target unchanged.
C28_CompaniesTargetFrame ==
    sheets'.Companies # sheets.Companies =>
        /\ pc = "upsert_companies"
        /\ raised = ""
        /\ FirstCall("append_rows Prospects") # 0

\* C28: the Prospects write precedes the Companies write; when the
\* Prospects write fails, no Companies write is attempted, both inserted
\* counts are 0 and the Companies target is unchanged although company
\* rows had been built.
C28_ProspectsWriteFirst ==
    [](C28_NoCompaniesWriteAfterFailure) /\ [][C28_CompaniesTargetFrame]_vars

C28_Witness ==
    /\ second_run
    /\ raised = "Prospects write failed"
    /\ Len(companies_data) = 1
    /\ Len(DataRows(sheets.Companies)) = 1
    /\ results.valid_prospects = 1

\* C29 (state part): when no fetched record is valid the run issues no
\* write and both inserted counts stay 0; and at every point the company
\* batch is non-empty exactly when the prospect batch is.
C29_NoWriteWithoutValidRecord ==
    /\ (LoopOver /\ prospects_data = <<>>) =>
          /\ appends = <<>>
          /\ FirstCall("append_rows Prospects") = 0
          /\ FirstCall("append_rows Companies") = 0
          /\ results.prospects_inserted = 0
          /\ results.companies_inserted = 0
    /\ (companies_data # <<>>) <=> (prospects_data # <<>>)

\* C29 (step part): no step of a run without a valid record changes either
\* target, not even by a header row.
C29_TargetsFrame ==
    (LoopOver /\ prospects_data = <<>>) => sheets' = sheets

\* C29: a run in which no fetched record is valid writes nothing to either
\* target and leaves both unchanged with both inserted counts 0; the company
\* batch is non-empty exactly when the prospect batch is non-empty.
C29_NothingValidNothingWritten ==
    [](C29_NoWriteWithoutValidRecord) /\ [][C29_TargetsFrame]_vars

C29_Witness ==
    /\ second_run
    /\ raw_data = <<RecNoEmail>>
    /\ pc = "returned"
    /\ appends = <<>>
    /\ Len(sheets.Prospects) = 2
    /\ Len(sheets.Companies) = 2
====
